---- MODULE Spec2Model ----
(***************************************************************************)
(* create-repo (packages/create-repo/src/index.ts): the bootstrap          *)
(* orchestrator init(), the template composer copyTemplate() and the two   *)
(* merge strategies mergeJsonFile() and appendFiles().                     *)
(*                                                                         *)
(* A file name is a pair (pre, stem): pre is the part the two regular      *)
(* expressions of the source look at ("._", ".", "with-" or nothing) and   *)
(* stem is the rest.  A path is a sequence of names.  A file system is a   *)
(* function from the paths that exist to nodes.  The destination paths are *)
(* relative to root, root itself being the empty path.                     *)
(***************************************************************************)
EXTENDS Integers, Sequences, FiniteSets, TLC

VARIABLES
    pc,              \* where init() stands
    disk,            \* the target directory: path -> node
    tpl,             \* the templates directory: path -> node (read only)
    options,         \* init: the answer of the multiselect prompt
    mergedOptions,   \* init: the applied-options accumulator
    optIdx,          \* 0: repo-base, i: the i-th element of options.forEach
    stack,           \* the active copyTemplate calls, innermost first
    composed,        \* history: the override directories copyTemplate was called on
    visited,         \* history: the template entries the forEach loops have handled
    created,         \* history: destination file -> the bytes it was created with
    calls,           \* history: how often emptyDir, the options prompt, copyTemplate ran
    initialDisk,     \* history: the target directory as the run found it
    last             \* history: what the latest file-system step did

vars == <<pc, disk, tpl, options, mergedOptions, optIdx, stack,
          composed, visited, created, calls, initialDisk, last>>

(***************************************************************************)
(* Bounds                                                                  *)
(***************************************************************************)
\* longest array in the JSON documents the merge is tried on
MaxArrLen == 2

(***************************************************************************)
(* Names and paths                                                         *)
(***************************************************************************)
N(pre, stem) == [pre |-> pre, stem |-> stem]
Plain(s) == N("", s)
Dot(s) == N(".", s)
DotU(s) == N("._", s)
With(s) == N("with-", s)

Range(q) == {q[i] : i \in 1..Len(q)}

\* index.ts:11
OPTIONS == <<"eslint", "prettier", "commitlint">>

\* index.ts:149
mergeFiles ==
    [n \in {Dot("eslintrc"), Plain("package.json"), Plain("lerna.json"),
            Dot("gitignore"), Dot("prettierignore")} |->
        IF n \in {Dot("gitignore"), Dot("prettierignore")} THEN "append" ELSE "json"]

\* the rename left out
actualFileName_same(file) == file

\* index.ts:76   file.replace(/^\._/, ".")
actualFileName(file) == IF file.pre = "._" THEN Dot(file.stem) ELSE file

\* index.ts:89   override.replace(/^with-/, "")
stripWith(override) == IF override.pre = "with-" THEN Plain(override.stem) ELSE override

\* index.ts:82   file === ".tsukemono"
Tsukemono == Dot("tsukemono")

\* index.ts:121
isMergeable(file) == file \in DOMAIN mergeFiles

(***************************************************************************)
(* JSON values, as JSON.parse builds them.  A scalar is named by its text; *)
(* an object is a function from its keys.  Every array and every object of *)
(* a parsed document is an object of its own on the heap.                  *)
(***************************************************************************)
Scalar(s) == [t |-> "scalar", v |-> s]
Arr(q) == [t |-> "array", v |-> q]
Obj(f) == [t |-> "object", v |-> f]
Undefined == [t |-> "undefined", v |-> ""]
EmptyObj == Obj([k \in {} |-> Undefined])

\* Array.prototype.concat: an array argument is spread, anything else is appended
concat(a, b) == IF b.t = "array" THEN a \o b.v ELSE Append(a, b)

\* SameValueZero of the elements at two different places of a parsed document:
\* primitives by value, arrays and objects by identity, so never the same
SameValueZero(x, y) == x.t = "scalar" /\ y.t = "scalar" /\ x.v = y.v

RECURSIVE Keep(_, _, _)
Keep(q, i, acc) ==
    IF i > Len(q) THEN acc
    ELSE IF \E j \in 1..Len(acc) : SameValueZero(acc[j], q[i])
         THEN Keep(q, i + 1, acc)
         ELSE Keep(q, i + 1, Append(acc, q[i]))

\* index.ts:137   Array.from(new Set(q))
ArrayFromSet(q) == Keep(q, 1, <<>>)

\* the customizer without the Set
customizer_noSet(a, b) == IF a.t = "array" THEN Arr(concat(a.v, b)) ELSE Undefined

\* index.ts:135   the customizer handed to mergeWith
customizer(a, b) == IF a.t = "array" THEN Arr(ArrayFromSet(concat(a.v, b))) ELSE Undefined

RECURSIVE baseMerge(_, _)
RECURSIVE baseMergeDeep(_, _)

\* lodash mergeWith, one key: the customizer's answer, else lodash's own merge
mergeValue(objValue, srcValue) ==
    LET c == customizer(objValue, srcValue)
    IN  IF srcValue.t = "scalar"
        THEN IF c # Undefined THEN c ELSE srcValue
        ELSE baseMergeDeep(objValue, srcValue)

baseMergeDeep(objValue, srcValue) ==
    LET c == customizer(objValue, srcValue)
    IN  IF c # Undefined THEN c
        ELSE IF srcValue.t = "array"
             THEN baseMerge(IF objValue.t = "array" THEN objValue ELSE Arr(<<>>), srcValue)
             ELSE baseMerge(IF objValue.t = "object" THEN objValue ELSE EmptyObj, srcValue)

\* lodash baseMerge: every key (or index) of source is merged into object
baseMerge(object, source) ==
    IF source.t = "array"
    THEN Arr([i \in 1..(IF Len(object.v) > Len(source.v) THEN Len(object.v) ELSE Len(source.v)) |->
                IF i > Len(source.v) THEN object.v[i]
                ELSE mergeValue(IF i <= Len(object.v) THEN object.v[i] ELSE Undefined,
                                source.v[i])])
    ELSE Obj([k \in DOMAIN object.v \cup DOMAIN source.v |->
                IF k \notin DOMAIN source.v THEN object.v[k]
                ELSE mergeValue(IF k \in DOMAIN object.v THEN object.v[k] ELSE Undefined,
                                source.v[k])])

\* index.ts:132
mergeWith(existingFileContent, templateFileContent) ==
    baseMerge(existingFileContent, templateFileContent)

(***************************************************************************)
(* File contents.  fmt tells how the bytes are laid out: "text" is text    *)
(* that is no JSON (val holds its lines), "json" is a JSON document as the *)
(* template author wrote it, "indent2" is the output of                    *)
(* JSON.stringify(v, null, 2).                                             *)
(***************************************************************************)
Text(lines) == [fmt |-> "text", val |-> Arr([i \in 1..Len(lines) |-> Scalar(lines[i])])]
Json(v) == [fmt |-> "json", val |-> v]
NoData == [fmt |-> "none", val |-> Undefined]

\* index.ts:126   JSON.parse(...toString().trim()) throws on text that is no JSON
parses(content) == content.fmt \in {"json", "indent2"}
JSONparse(content) == content.val

\* index.ts:140   JSON.stringify(content, null, 2)
JSONstringify(v) == [fmt |-> "indent2", val |-> v]

\* index.ts:144   toString().split("\n")
splitLines(content) == content.val.v

File(content) == [dir |-> FALSE, data |-> content]
Dir == [dir |-> TRUE, data |-> NoData]

exists(fs, p) == p \in DOMAIN fs
isDirectory(fs, p) == p \in DOMAIN fs /\ fs[p].dir
isFile(fs, p) == p \in DOMAIN fs /\ ~fs[p].dir

\* fs.readdirSync: the names in a directory
readdir(fs, p) ==
    {q[Len(q)] : q \in {r \in DOMAIN fs : Len(r) = Len(p) + 1 /\ SubSeq(r, 1, Len(p)) = p}}

\* a file system with the node at p set
put(fs, p, node) == [q \in DOMAIN fs \cup {p} |-> IF q = p THEN node ELSE fs[q]]

\* a file system without the node at p
remove(fs, p) == [q \in DOMAIN fs \ {p} |-> fs[q]]

parent(p) == SubSeq(p, 1, Len(p) - 1)

\* the root of the target directory, and of the templates directory
root == <<>>
templatesRootDir == <<>>

RECURSIVE emptyDir(_, _)
RECURSIVE emptyEach(_, _, _)

\* index.ts:192   the loop of emptyDir over the entries of dir
emptyEach(fs, dir, names) ==
    IF names = {} THEN fs
    ELSE LET file == CHOOSE n \in names : TRUE
             abs == Append(dir, file)
             after == IF fs[abs].dir THEN remove(emptyDir(fs, abs), abs) ELSE remove(fs, abs)
         IN  emptyEach(after, dir, names \ {file})

\* index.ts:188
emptyDir(fs, dir) == IF ~exists(fs, dir) THEN fs ELSE emptyEach(fs, dir, readdir(fs, dir))

(***************************************************************************)
(* The file operations of copyTemplate.  Each gives the file system it     *)
(* leaves and whether it returned (ok) or threw.                           *)
(***************************************************************************)
Ok(fs) == [ok |-> TRUE, fs |-> fs]
Threw(fs) == [ok |-> FALSE, fs |-> fs]

\* copyFileSync that keeps a destination that is there
copyFileSync_excl(fs, content, dst) ==
    IF isDirectory(fs, dst) \/ ~isDirectory(fs, parent(dst)) THEN Threw(fs)
    ELSE IF exists(fs, dst) THEN Ok(fs)
    ELSE Ok(put(fs, dst, File(content)))

\* index.ts:100   fs.copyFileSync: EISDIR on a directory, ENOTDIR/ENOENT under a non-directory
copyFileSync(fs, content, dst) ==
    IF isDirectory(fs, dst) \/ ~isDirectory(fs, parent(dst)) THEN Threw(fs)
    ELSE Ok(put(fs, dst, File(content)))

\* mergeJsonFile with the two documents swapped
mergeJsonFile_swapped(fs, existing, templateContent) ==
    IF ~isFile(fs, existing) \/ ~parses(fs[existing].data) \/ ~parses(templateContent)
    THEN Threw(fs)
    ELSE Ok(put(fs, existing,
                File(JSONstringify(mergeWith(JSONparse(templateContent),
                                             JSONparse(fs[existing].data))))))

\* index.ts:125
mergeJsonFile(fs, existing, templateContent) ==
    IF ~isFile(fs, existing) \/ ~parses(fs[existing].data) \/ ~parses(templateContent)
    THEN Threw(fs)
    ELSE Ok(put(fs, existing,
                File(JSONstringify(mergeWith(JSONparse(fs[existing].data),
                                             JSONparse(templateContent))))))

\* appendFiles that writes the lines of both files back
appendFiles_writes(fs, existing, templateContent) ==
    IF ~isFile(fs, existing) THEN Threw(fs)
    ELSE Ok(put(fs, existing,
                File([fmt |-> "text",
                      val |-> Arr(splitLines(fs[existing].data) \o splitLines(templateContent))])))

\* index.ts:143   both files are read and split, the result is only logged
appendFiles(fs, existing, templateContent) ==
    IF ~isFile(fs, existing) THEN Threw(fs) ELSE Ok(fs)

\* the test without the merge table
needsCopy_absentOnly(fs, targetFilePath, actual) == ~exists(fs, targetFilePath)

\* index.ts:99   the test that sends a file to copyFileSync
needsCopy(fs, targetFilePath, actual) == ~exists(fs, targetFilePath) \/ ~isMergeable(actual)

\* index.ts:102   mergeFiles[actualFileName]
mergeStrategy(actual) == IF actual \in DOMAIN mergeFiles THEN mergeFiles[actual] ELSE "undefined"

\* index.ts:98-116   what copyTemplate does with a file entry
fileOp(fs, targetFilePath, actual) ==
    IF needsCopy(fs, targetFilePath, actual) THEN "copy" ELSE mergeStrategy(actual)

fileStep(fs, op, content, targetFilePath) ==
    IF op = "copy" THEN copyFileSync(fs, content, targetFilePath)
    ELSE IF op = "json" THEN mergeJsonFile(fs, targetFilePath, content)
    ELSE IF op = "append" THEN appendFiles(fs, targetFilePath, content)
    ELSE Threw(fs)

\* index.ts:89   options.includes(override.replace(/^with-/, ""))
overrideSelected(opts, override) ==
    LET name == stripWith(override) IN name.pre = "" /\ name.stem \in Range(opts)

\* repo-base composed with the accumulator
baseOptions_none(opts, merged) == merged

\* index.ts:59   the options init hands to the composition of repo-base
baseOptions(opts, merged) == opts

\* with-<option> composed with all the selected options
optionOptions_all(opts, merged) == opts

\* index.ts:65   the options init hands to the composition of with-<option>
optionOptions(opts, merged) == merged

\* index.ts:73-74   a call of copyTemplate: the entries of template are still to do
copyTemplateFrame(template, dest, opts) ==
    [kind |-> "dir", template |-> template, dest |-> dest, options |-> opts,
     pending |-> readdir(tpl, template)]

\* index.ts:83   the loop over the entries of template/.tsukemono
overridesFrame(template, dest, opts) ==
    [kind |-> "overrides", template |-> template, dest |-> dest, options |-> opts,
     pending |-> readdir(tpl, Append(template, Tsukemono))]

RECURSIVE unwind(_)
\* a forEach with nothing left returns to its caller
unwind(s) == IF s # <<>> /\ Head(s).pending = {} THEN unwind(Tail(s)) ELSE s

NoStep == [op |-> "none", ok |-> TRUE, src |-> <<>>, target |-> <<>>, existed |-> FALSE,
           before |-> NoData, opts |-> <<>>]
Step(op, ok, src, target, existed, before, opts) ==
    [op |-> op, ok |-> ok, src |-> src, target |-> target, existed |-> existed,
     before |-> before, opts |-> opts]

\* index.ts:60, 67   the calls of init return one after the other
Continue(s, idx, merged, opts) ==
    LET u == unwind(s)
    IN  /\ stack' = u
        /\ pc' = "compose"
        /\ IF u = <<>>
           THEN /\ optIdx' = idx + 1
                /\ mergedOptions' = IF idx = 0 THEN <<>> ELSE Append(merged, opts[idx])
           ELSE /\ optIdx' = idx
                /\ mergedOptions' = merged

\* an exception leaves init through init().catch(console.error), index.ts:204
Throw ==
    /\ pc' = "failed"
    /\ stack' = <<>>
    /\ UNCHANGED <<optIdx, mergedOptions>>

RECURSIVE inOrder(_, _)
inOrder(S, i) ==
    IF i > Len(OPTIONS) THEN <<>>
    ELSE (IF i \in S THEN <<OPTIONS[i]>> ELSE <<>>) \o inOrder(S, i + 1)

\* index.ts:51   the multiselect prompt answers with the enabled choices, as offered
Selections == {inOrder(S, 1) : S \in SUBSET (1..Len(OPTIONS))}

(***************************************************************************)
(* The templates directory and the target directory the runs start from.   *)
(***************************************************************************)
FsOf(entries) == [q \in {e[1] : e \in entries} |-> (CHOOSE e \in entries : e[1] = q)[2]]
NoFs == FsOf({})

S1 == Scalar("1")
S2 == Scalar("2")

RepoBase == <<Plain("repo-base")>>
WithOption(option) == <<With(option)>>
OverrideDir(template, option) == template \o <<Tsukemono, With(option)>>

PkgBase == Obj("name" :> Scalar("repo") @@ "dependencies" :> Obj("a" :> S1))
PkgEslint == Obj("dependencies" :> Obj("b" :> S2))
PkgPrettier == Obj("dependencies" :> Obj("a" :> S2) @@ "files" :> Arr(<<Scalar("src")>>))
EslintRc ==
    Obj("root" :> S1 @@ "extends" :> Arr(<<Scalar("base")>>) @@ "rules" :> Obj("semi" :> S1))

\* what with-prettier/.tsukemono/with-eslint/.eslintrc may hold
OverrideRcs ==
    {Json(Obj("extends" :> Arr(<<Scalar("base"), Scalar("prettier")>>)
              @@ "rules" :> Obj("semi" :> S2))),
     Json(Obj("extends" :> Scalar("prettier") @@ "root" :> S2)),
     Text(<<"# not json">>)}

ReadmeBase == Text(<<"base">>)
Readmes == {ReadmeBase, Text(<<"eslint">>)}

PlainBase ==
    {<<RepoBase, Dir>>,
     <<RepoBase \o <<Plain("README")>>, File(ReadmeBase)>>,
     <<RepoBase \o <<Plain("package.json")>>, File(Json(PkgBase))>>,
     <<RepoBase \o <<Plain("src")>>, Dir>>,
     <<RepoBase \o <<Plain("src"), Plain("index")>>, File(Text(<<"code">>))>>}

FullBase ==
    PlainBase \cup
    {<<RepoBase \o <<DotU("gitignore")>>, File(Text(<<"node_modules">>))>>,
     <<RepoBase \o <<Tsukemono>>, Dir>>,
     <<OverrideDir(RepoBase, "eslint"), Dir>>,
     <<OverrideDir(RepoBase, "eslint") \o <<Plain("README")>>, File(Text(<<"base", "lint">>))>>,
     <<OverrideDir(RepoBase, "commitlint"), Dir>>,
     <<OverrideDir(RepoBase, "commitlint") \o <<DotU("huskyrc")>>, File(Json(EmptyObj))>>}

Bases == {PlainBase, FullBase}

OptionTemplates(readme, rc) ==
    LET e == WithOption("eslint")
        p == WithOption("prettier")
        c == WithOption("commitlint")
    IN  {<<e, Dir>>,
         <<e \o <<Dot("eslintrc")>>, File(Json(EslintRc))>>,
         <<e \o <<Plain("package.json")>>, File(Json(PkgEslint))>>,
         <<e \o <<Plain("README")>>, File(readme)>>,
         <<e \o <<DotU("gitignore")>>, File(Text(<<"cache">>))>>,
         <<e \o <<Tsukemono>>, Dir>>,
         <<OverrideDir(e, "eslint"), Dir>>,
         <<OverrideDir(e, "eslint") \o <<Plain("SELF")>>, File(Text(<<"self">>))>>,
         <<OverrideDir(e, "prettier"), Dir>>,
         <<OverrideDir(e, "prettier") \o <<Plain("LATER")>>, File(Text(<<"later">>))>>,
         <<p, Dir>>,
         <<p \o <<Dot("prettierignore")>>, File(Text(<<"dist">>))>>,
         <<p \o <<Plain("package.json")>>, File(Json(PkgPrettier))>>,
         <<p \o <<Tsukemono>>, Dir>>,
         <<p \o <<Tsukemono, Plain("notes")>>, File(Text(<<"notes">>))>>,
         <<OverrideDir(p, "eslint"), Dir>>,
         <<OverrideDir(p, "eslint") \o <<Dot("eslintrc")>>, File(rc)>>,
         <<OverrideDir(p, "eslint") \o <<Plain("README")>>, File(Text(<<"eslint", "prettier">>))>>,
         <<OverrideDir(p, "prettier"), Dir>>,
         <<OverrideDir(p, "prettier") \o <<Plain("SELF")>>, File(Text(<<"self">>))>>,
         <<OverrideDir(p, "commitlint"), Dir>>,
         <<OverrideDir(p, "commitlint") \o <<Plain("LATER")>>, File(Text(<<"later">>))>>,
         <<c, Dir>>,
         <<c \o <<Plain("package.json")>>, File(Json(Obj("files" :> Arr(<<Scalar("src"), Scalar("lib")>>))))>>,
         <<c \o <<Dot("prettierignore")>>, File(Text(<<"coverage">>))>>,
         <<c \o <<Tsukemono>>, Dir>>,
         <<OverrideDir(c, "prettier"), Dir>>,
         <<OverrideDir(c, "prettier") \o <<Plain("src")>>, Dir>>,
         <<OverrideDir(c, "prettier") \o <<Plain("src"), Plain("index")>>, File(Text(<<"hooked">>))>>}

TemplateDirs ==
    {FsOf({<<templatesRootDir, Dir>>} \cup base \cup OptionTemplates(readme, rc)) :
        base \in Bases, readme \in Readmes, rc \in OverrideRcs}

\* the target directory before the run: missing, empty, or holding something
TargetDirs ==
    {NoFs,
     FsOf({<<root, Dir>>}),
     FsOf({<<root, Dir>>, <<<<Plain("old")>>, File(Text(<<"old">>))>>}),
     FsOf({<<root, Dir>>, <<<<Dot("gitignore")>>, File(Text(<<"mine">>))>>,
           <<<<Plain("lib")>>, Dir>>, <<<<Plain("lib"), Plain("old")>>, File(Text(<<"old">>))>>})}

NoCalls == [emptyDir |-> 0, prompt |-> 0, copyTemplate |-> 0]

Init ==
    /\ pc = "start"
    /\ disk \in TargetDirs
    /\ tpl \in TemplateDirs
    /\ options = <<>>
    /\ mergedOptions = <<>>
    /\ optIdx = 0
    /\ stack = <<>>
    /\ composed = {}
    /\ visited = {}
    /\ created = NoFs
    /\ calls = NoCalls
    /\ initialDisk = disk
    /\ last = NoStep

(***************************************************************************)
(* init                                                                    *)
(***************************************************************************)
\* index.ts:30-34
CheckRoot ==
    /\ pc = "start"
    /\ IF ~exists(disk, root)
       THEN /\ disk' = put(disk, root, Dir)
            /\ pc' = "select"
       ELSE /\ disk' = disk
            /\ pc' = IF readdir(disk, root) # {} THEN "confirm" ELSE "select"
    /\ UNCHANGED <<tpl, options, mergedOptions, optIdx, stack, composed, visited,
                   created, calls, initialDisk, last>>

\* the directory emptied before the answer is looked at
AnswerConfirm_emptiesFirst(yes) ==
    /\ pc = "confirm"
    /\ disk' = emptyDir(disk, root)
    /\ calls' = [calls EXCEPT !.emptyDir = @ + 1]
    /\ pc' = IF yes THEN "select" ELSE "aborted"
    /\ UNCHANGED <<tpl, options, mergedOptions, optIdx, stack, composed, visited,
                   created, initialDisk, last>>

\* index.ts:35-47   the answer of the confirm prompt
AnswerConfirm(yes) ==
    /\ pc = "confirm"
    /\ IF yes
       THEN /\ disk' = emptyDir(disk, root)
            /\ calls' = [calls EXCEPT !.emptyDir = @ + 1]
            /\ pc' = "select"
       ELSE /\ pc' = "aborted"
            /\ UNCHANGED <<disk, calls>>
    /\ UNCHANGED <<tpl, options, mergedOptions, optIdx, stack, composed, visited,
                   created, initialDisk, last>>

\* index.ts:51-59   the answer of the multiselect prompt, then repo-base is composed
SelectOptions(opts) ==
    /\ pc = "select"
    /\ options' = opts
    /\ calls' = [calls EXCEPT !.prompt = @ + 1, !.copyTemplate = @ + 1]
    /\ Continue(<<copyTemplateFrame(RepoBase, root, baseOptions(opts, mergedOptions))>>,
                0, mergedOptions, opts)
    /\ UNCHANGED <<disk, tpl, composed, visited, created, initialDisk, last>>

\* index.ts:61-66   options.forEach: with-<option> is composed
ComposeOption ==
    /\ pc = "compose"
    /\ stack = <<>>
    /\ optIdx \in 1..Len(options)
    /\ calls' = [calls EXCEPT !.copyTemplate = @ + 1]
    /\ Continue(<<copyTemplateFrame(WithOption(options[optIdx]), root,
                                    optionOptions(options, mergedOptions))>>,
                optIdx, mergedOptions, options)
    /\ UNCHANGED <<disk, tpl, options, composed, visited, created, initialDisk, last>>

\* index.ts:70
Finish ==
    /\ pc = "compose"
    /\ stack = <<>>
    /\ optIdx > Len(options)
    /\ pc' = "done"
    /\ UNCHANGED <<disk, tpl, options, mergedOptions, optIdx, stack, composed, visited,
                   created, calls, initialDisk, last>>

(***************************************************************************)
(* copyTemplate: one entry of the innermost forEach per step.  readdirSync *)
(* promises no order, so any pending entry may be the next.                *)
(***************************************************************************)
Rest(file) == <<[Head(stack) EXCEPT !.pending = @ \ {file}]>> \o Tail(stack)

\* index.ts:98-116
VisitFile ==
    /\ pc = "compose"
    /\ stack # <<>>
    /\ Head(stack).kind = "dir"
    /\ \E file \in Head(stack).pending :
        LET top == Head(stack)
            templateFilePath == Append(top.template, file)
            targetFilePath == Append(top.dest, actualFileName(file))
            op == fileOp(disk, targetFilePath, actualFileName(file))
            content == tpl[templateFilePath].data
            r == fileStep(disk, op, content, targetFilePath)
        IN  /\ isFile(tpl, templateFilePath)
            /\ visited' = visited \cup {templateFilePath}
            /\ disk' = r.fs
            /\ last' = Step(op, r.ok, templateFilePath, targetFilePath,
                            exists(disk, targetFilePath),
                            IF isFile(disk, targetFilePath) THEN disk[targetFilePath].data
                            ELSE NoData,
                            top.options)
            /\ created' = IF r.ok /\ ~exists(disk, targetFilePath)
                          THEN put(created, targetFilePath, File(content))
                          ELSE created
            /\ IF r.ok THEN Continue(Rest(file), optIdx, mergedOptions, options) ELSE Throw
    /\ UNCHANGED <<tpl, options, composed, calls, initialDisk>>

\* index.ts:94-97
VisitDirectory ==
    /\ pc = "compose"
    /\ stack # <<>>
    /\ Head(stack).kind = "dir"
    /\ \E file \in Head(stack).pending :
        LET top == Head(stack)
            templateFilePath == Append(top.template, file)
            targetFilePath == Append(top.dest, actualFileName(file))
            made == ~exists(disk, targetFilePath)
        IN  /\ isDirectory(tpl, templateFilePath)
            /\ file # Tsukemono
            /\ visited' = visited \cup {templateFilePath}
            /\ disk' = IF made THEN put(disk, targetFilePath, Dir) ELSE disk
            /\ last' = Step(IF made THEN "mkdir" ELSE "enter", TRUE, templateFilePath,
                            targetFilePath, ~made, NoData, top.options)
            /\ Continue(<<copyTemplateFrame(templateFilePath, targetFilePath, top.options)>>
                        \o Rest(file), optIdx, mergedOptions, options)
    /\ UNCHANGED <<tpl, options, composed, created, calls, initialDisk>>

\* index.ts:82-83
VisitTsukemono ==
    /\ pc = "compose"
    /\ stack # <<>>
    /\ Head(stack).kind = "dir"
    /\ Tsukemono \in Head(stack).pending
    /\ LET top == Head(stack)
       IN  /\ isDirectory(tpl, Append(top.template, Tsukemono))
           /\ visited' = visited \cup {Append(top.template, Tsukemono)}
           /\ last' = Step("overrides", TRUE, Append(top.template, Tsukemono), top.dest,
                           TRUE, NoData, top.options)
           /\ Continue(<<overridesFrame(top.template, top.dest, top.options)>>
                       \o Rest(Tsukemono), optIdx, mergedOptions, options)
    /\ UNCHANGED <<disk, tpl, options, composed, created, calls, initialDisk>>

\* index.ts:84-93
VisitOverride ==
    /\ pc = "compose"
    /\ stack # <<>>
    /\ Head(stack).kind = "overrides"
    /\ \E override \in Head(stack).pending :
        LET top == Head(stack)
            overrideDir == top.template \o <<Tsukemono, override>>
            taken == isDirectory(tpl, overrideDir) /\ overrideSelected(top.options, override)
        IN  /\ visited' = visited \cup {overrideDir}
            /\ composed' = IF taken THEN composed \cup {overrideDir} ELSE composed
            /\ last' = Step(IF taken THEN "override" ELSE "skip", TRUE, overrideDir, top.dest,
                            TRUE, NoData, top.options)
            /\ Continue((IF taken THEN <<copyTemplateFrame(overrideDir, top.dest, <<>>)>>
                         ELSE <<>>) \o Rest(override), optIdx, mergedOptions, options)
    /\ UNCHANGED <<disk, tpl, options, created, calls, initialDisk>>

Next ==
    \/ CheckRoot
    \/ \E yes \in BOOLEAN : AnswerConfirm(yes)
    \/ \E opts \in Selections : SelectOptions(opts)
    \/ ComposeOption
    \/ VisitFile
    \/ VisitDirectory
    \/ VisitTsukemono
    \/ VisitOverride
    \/ Finish

Spec == Init /\ [][Next]_vars

(***************************************************************************)
(* The runs the json merge is tried on: repo-base holds package.json with  *)
(* document A, with-eslint holds package.json with document B, and the     *)
(* target directory is there and empty.                                    *)
(***************************************************************************)
Elements == {S1, S2, Obj("x" :> S1)}
Arrays == {Arr(q) : q \in UNION {[1..n -> Elements] : n \in 0..MaxArrLen}}
Objects ==
    {EmptyObj, Obj("a" :> S1), Obj("b" :> S2), Obj("a" :> S2),
     Obj("a" :> Arr(<<S1>>)), Obj("a" :> Arr(<<S2, S1>>))}
Values == {S1, S2} \cup Arrays \cup Objects

\* a document with the key "k" (or without, for Undefined) and a key of its own
Doc(own, v) == Obj([key \in {own} \cup (IF v = Undefined THEN {} ELSE {"k"}) |->
                        IF key = own THEN Scalar(own) ELSE v])

MergeTemplateDirs ==
    {FsOf({<<templatesRootDir, Dir>>, <<RepoBase, Dir>>,
           <<RepoBase \o <<Plain("package.json")>>, File(Json(Doc("ka", a)))>>,
           <<WithOption("eslint"), Dir>>,
           <<WithOption("eslint") \o <<Plain("package.json")>>, File(Json(Doc("kb", b)))>>,
           <<WithOption("prettier"), Dir>>,
           <<WithOption("commitlint"), Dir>>}) :
        a \in Values \cup {Undefined}, b \in Values \cup {Undefined}}

MergeInit ==
    /\ pc = "select"
    /\ disk = FsOf({<<root, Dir>>})
    /\ tpl \in MergeTemplateDirs
    /\ options = <<>>
    /\ mergedOptions = <<>>
    /\ optIdx = 0
    /\ stack = <<>>
    /\ composed = {}
    /\ visited = {}
    /\ created = NoFs
    /\ calls = NoCalls
    /\ initialDisk = disk
    /\ last = NoStep

MergeNext ==
    \/ \E opts \in Selections : SelectOptions(opts)
    \/ ComposeOption
    \/ VisitFile
    \/ Finish

MergeSpec == MergeInit /\ [][MergeNext]_vars

(***************************************************************************)
(* Properties                                                              *)
(***************************************************************************)
Basename(p) == p[Len(p)]
FileStep == last.op \in {"copy", "json", "append", "undefined"}
TemplateBytes == tpl[last.src].data

\* C1: a file entry whose destination (after the "._" rename) is absent, or is
\* there under a name the merge table does not hold, is copied: the destination
\* then has the template file's content.  The json or append strategy runs only
\* on a destination that is there and whose name the merge table holds.
C1_CopyUnlessPresentAndMergeable ==
    FileStep =>
        /\ (~last.existed \/ ~isMergeable(Basename(last.target))) =>
               /\ last.op = "copy"
               /\ last.ok
               /\ isFile(disk, last.target)
               /\ disk[last.target].data = TemplateBytes
        /\ last.op \in {"json", "append"} <=>
               (last.existed /\ isMergeable(Basename(last.target)))

C1_Witness ==
    /\ FileStep
    /\ last.existed
    /\ ~isMergeable(Basename(last.target))
    /\ last.before # TemplateBytes
    /\ disk[last.target].data = TemplateBytes

\* C2 as stated: a destination file that is there, is not in the merge table
\* and differs from the template file is left unmodified.
C2_Original ==
    (FileStep /\ last.existed /\ ~isMergeable(Basename(last.target))
        /\ last.before # TemplateBytes)
    => disk[last.target].data = last.before

\* C2 amended: a destination file that is there, is not in the merge table and
\* differs from the template file is overwritten with the template file's bytes.
C2_Overwritten ==
    (FileStep /\ last.existed /\ ~isMergeable(Basename(last.target))
        /\ last.before # TemplateBytes)
    => (disk[last.target].data = TemplateBytes /\ disk[last.target].data # last.before)

C2_Witness ==
    /\ last.op = "copy"
    /\ last.existed
    /\ last.before # TemplateBytes
    /\ last.before # NoData
    /\ last.src = WithOption("eslint") \o <<Plain("README")>>

\* C7: when the target directory is there and not empty and the user declines,
\* the run is over with the directory as it was found: emptyDir was not
\* called, the options prompt was not shown, copyTemplate was not called.
C7_DeclineChangesNothing ==
    pc = "aborted" =>
        /\ disk = initialDisk
        /\ calls = NoCalls
        /\ visited = {}
        /\ stack = <<>>
        /\ ~ENABLED Next

C7_Witness ==
    /\ pc = "aborted"
    /\ readdir(disk, root) # {}

AppendNames == {n \in DOMAIN mergeFiles : mergeFiles[n] = "append"}

\* C10: on a destination .gitignore or .prettierignore that is there, the
\* append strategy leaves the disk as it is, so through all the templates
\* composed the file keeps the bytes it was created with.
C10_AppendIsNoOp ==
    /\ (FileStep /\ last.existed /\ Basename(last.target) \in AppendNames) =>
           /\ last.op = "append"
           /\ last.ok
           /\ disk[last.target].data = last.before
    /\ pc \in {"compose", "done", "failed"} =>
           \A p \in DOMAIN disk :
               (~disk[p].dir /\ Basename(p) \in AppendNames) =>
                   (p \in DOMAIN created /\ disk[p] = created[p])

C10_Witness ==
    /\ last.op = "append"
    /\ last.before # TemplateBytes
    /\ pc = "done"

Under(p, d) == Len(p) > Len(d) /\ SubSeq(p, 1, Len(d)) = d
Earlier(n) == {options[m] : m \in 1..(n - 1)}
Composing == pc \in {"compose", "done"}

\* C3: while with-oN is composed, the override subtree with-X under its
\* .tsukemono directory is composed exactly when X is one of o1..o(N-1): the
\* calls made for with-oN carry o1..o(N-1) as their options, no override for
\* oN itself or for a later option is ever composed, and once with-oN has been
\* composed every override for an earlier option has been.
C3_OverridesOfEarlierOptionsOnly ==
    /\ \A i \in 1..Len(stack) :
           (optIdx >= 1 /\ stack[i].template = WithOption(options[optIdx])) =>
               stack[i].options = SubSeq(options, 1, optIdx - 1)
    /\ \A n \in 1..Len(options) : \A x \in Range(OPTIONS) :
           LET d == OverrideDir(WithOption(options[n]), x)
           IN  /\ d \in composed => x \in Earlier(n)
               /\ (Composing /\ optIdx > n /\ isDirectory(tpl, d) /\ x \in Earlier(n))
                      => d \in composed

C3_Witness ==
    /\ pc = "done"
    /\ options = OPTIONS
    /\ OverrideDir(WithOption("prettier"), "eslint") \in composed
    /\ OverrideDir(WithOption("prettier"), "prettier") \in visited \ composed
    /\ OverrideDir(WithOption("prettier"), "commitlint") \in visited \ composed

\* C4 as stated: repo-base is composed with no applied option, so no override
\* subtree under its .tsukemono directory is composed.
C4_Original ==
    /\ \A i \in 1..Len(stack) : stack[i].template = RepoBase => stack[i].options = <<>>
    /\ \A d \in composed : ~Under(d, RepoBase)

\* C4 amended: repo-base is composed with all the selected options, so the
\* override subtree with-X under its .tsukemono directory is composed exactly
\* when X was selected.
C4_BaseOverridesOfSelectedOptions ==
    /\ \A i \in 1..Len(stack) : stack[i].template = RepoBase => stack[i].options = options
    /\ \A x \in Range(OPTIONS) :
           LET d == OverrideDir(RepoBase, x)
           IN  /\ d \in composed => x \in Range(options)
               /\ (Composing /\ optIdx >= 1 /\ isDirectory(tpl, d) /\ x \in Range(options))
                      => d \in composed

C4_Witness ==
    /\ pc = "compose"
    /\ optIdx = 1
    /\ stack = <<>>
    /\ options = <<"eslint", "prettier">>
    /\ OverrideDir(RepoBase, "eslint") \in composed
    /\ OverrideDir(RepoBase, "commitlint") \in visited \ composed

\* the step just taken was a json merge: the two documents and the result
JsonStep == last.op = "json" /\ last.ok
DocA == JSONparse(last.before)
DocB == JSONparse(TemplateBytes)
DocM == JSONparse(disk[last.target].data)

RECURSIVE Distinct(_, _, _)
Distinct(q, i, acc) ==
    IF i > Len(q) THEN acc
    ELSE Distinct(q, i + 1, IF q[i] \in Range(acc) THEN acc ELSE Append(acc, q[i]))

\* C5 as stated: at a key that holds an array on both sides the merge writes the
\* first-seen-order union of the two arrays, elements that are equal as JSON
\* values (equal objects too) appearing once.
C5_Original ==
    JsonStep =>
        \A k \in DOMAIN DocA.v \cap DOMAIN DocB.v :
            (DocA.v[k].t = "array" /\ DocB.v[k].t = "array") =>
                DocM.v[k] = Arr(Distinct(DocA.v[k].v \o DocB.v[k].v, 1, <<>>))

RECURSIVE TemplateWins(_, _, _)
TemplateWins(a, b, m) ==
    IF a.t = "array" /\ b.t = "array" THEN TRUE
    ELSE IF a.t = "object" /\ b.t = "object"
    THEN /\ m.t = "object"
         /\ DOMAIN m.v = DOMAIN a.v \cup DOMAIN b.v
         /\ \A j \in DOMAIN m.v :
                IF j \notin DOMAIN b.v THEN m.v[j] = a.v[j]
                ELSE IF j \notin DOMAIN a.v THEN m.v[j] = b.v[j]
                ELSE TemplateWins(a.v[j], b.v[j], m.v[j])
    ELSE m = b

\* C6 as stated: where the two values are not both arrays, two objects are
\* merged key by key and in every other conflict the merged value is the
\* template's; a key of one side only keeps its value.
C6_Original == JsonStep => TemplateWins(DocA, DocB, DocM)

RECURSIVE TemplateWinsButArrayAbsorbs(_, _, _)
TemplateWinsButArrayAbsorbs(a, b, m) ==
    IF a.t = "array" /\ b.t = "array" THEN TRUE
    ELSE IF a.t = "object" /\ b.t = "object"
    THEN /\ m.t = "object"
         /\ DOMAIN m.v = DOMAIN a.v \cup DOMAIN b.v
         /\ \A j \in DOMAIN m.v :
                IF j \notin DOMAIN b.v THEN m.v[j] = a.v[j]
                ELSE IF j \notin DOMAIN a.v THEN m.v[j] = b.v[j]
                ELSE TemplateWinsButArrayAbsorbs(a.v[j], b.v[j], m.v[j])
    ELSE IF a.t = "array"
    THEN m = Arr(ArrayFromSet(a.v)
                 \o (IF b.t = "scalar" /\ b \in Range(a.v) THEN <<>> ELSE <<b>>))
    ELSE m = b

\* C6 amended: as stated, except where the existing value is an array and the
\* template's is not: there the merged value is the existing array (without
\* its repeated scalars), followed by the template's value unless that is a
\* scalar the array holds already.
C6_TemplateWinsExceptOverArray == JsonStep => TemplateWinsButArrayAbsorbs(DocA, DocB, DocM)

C6_Witness ==
    /\ JsonStep
    /\ "k" \in DOMAIN DocA.v \cap DOMAIN DocB.v
    /\ DocA.v["k"] = Arr(<<S1>>)
    /\ DocB.v["k"] = S2
    /\ DocM.v["k"] = Arr(<<S1, S2>>)
    /\ DocM.v["ka"] = Scalar("ka")
    /\ DocM.v["kb"] = Scalar("kb")

\* the base template has been composed, init is about to turn to the options
BaseDone == pc = "compose" /\ optIdx = 1 /\ stack = <<>>
BasePaths == {SubSeq(p, 2, Len(p)) : p \in {q \in DOMAIN tpl : Len(q) >= 1 /\ q[1] = RepoBase[1]}}

\* C8 as stated: composing repo-base into an empty destination gives a tree
\* identical to the template's: same names at the same paths, same bytes.
C8_Original ==
    BaseDone =>
        /\ DOMAIN disk = BasePaths
        /\ \A p \in BasePaths : disk[p] = tpl[RepoBase \o p]

DotName(n) == IF n.pre = "._" THEN [pre |-> ".", stem |-> n.stem] ELSE n
DotPath(p) == [i \in 1..Len(p) |-> DotName(p[i])]
OutsideTsukemono == {p \in BasePaths : \A i \in 1..Len(p) : p[i] # [pre |-> ".", stem |-> "tsukemono"]}

\* C8 amended: composing repo-base into an empty destination, when none of the
\* override subtrees of repo-base is selected, gives the template's tree with
\* the leading "._" of every name replaced by "." and without the .tsukemono
\* directory: nothing else is added, removed or renamed, every file has the
\* template file's bytes.
C8_TreeUpToRenameAndOverrides ==
    (BaseDone /\ composed = {}) =>
        /\ DOMAIN disk = {DotPath(p) : p \in OutsideTsukemono}
        /\ \A p \in OutsideTsukemono : disk[DotPath(p)] = tpl[RepoBase \o p]

C8_Witness ==
    /\ BaseDone
    /\ composed = {}
    /\ <<DotU("gitignore")>> \in BasePaths
    /\ <<Tsukemono>> \in BasePaths
    /\ isFile(disk, <<Dot("gitignore")>>)
    /\ isFile(disk, <<Plain("src"), Plain("index")>>)

PrettierOnEslint == OverrideDir(WithOption("prettier"), "eslint")
EslintOwn ==
    {p \in DOMAIN tpl : Under(p, WithOption("eslint")) /\ (Len(p) < 3 \/ p[2] # Tsukemono)}

\* the override's values are in m, on top of what e held
OverrideOnTop(e, o, m) ==
    /\ \A k \in DOMAIN e.v \ DOMAIN o.v : m.v[k] = e.v[k]
    /\ \A k \in DOMAIN o.v :
           IF o.v[k].t = "scalar"
           THEN IF k \in DOMAIN e.v /\ e.v[k].t = "array"
                THEN o.v[k] \in Range(m.v[k].v)
                ELSE m.v[k] = o.v[k]
           ELSE IF o.v[k].t = "array"
           THEN /\ m.v[k].t = "array"
                /\ Range(o.v[k].v) \subseteq Range(m.v[k].v)
                /\ (k \in DOMAIN e.v /\ e.v[k].t = "array") =>
                       Range(e.v[k].v) \subseteq Range(m.v[k].v)
           ELSE \A j \in DOMAIN o.v[k].v :
                    o.v[k].v[j].t = "scalar" => m.v[k].v[j] = o.v[k].v[j]

====
